---- MODULE Spec2Model ----
(***************************************************************************)
(* Model of panel/src/pages/Dashboard/FullPerfCard.tsx: the FullPerfCard   *)
(* widget (thread selector, useSWR fetch of /perfChartData/:thread, the    *)
(* loading / error / chart content switch), the memoised FullPerfChart     *)
(* surface and ChartErrorMessage.                                          *)
(*                                                                         *)
(* One action is one UI event together with the synchronous re-render,     *)
(* commit and effects React runs for it.  The useSWR hook is called with   *)
(* the constant key '/perfChartData/:thread' and default options; its      *)
(* behaviour for one key (FETCH marker, start timestamps, discarding of a  *)
(* superseded response, data kept on error, isLoading only while there is  *)
(* no data) is written out in the fetch actions below.                     *)
(***************************************************************************)
EXTENDS Integers, Sequences, FiniteSets, TLC

\* ------------------------------------------------------------------ bounds
MaxInflight == 2   \* GET requests pending at the same time
MaxLog == 1        \* snapshots in a response's threadPerfLog
MaxDim == 1        \* widths and heights reported by the resize container

\* --------------------------------------------------------------- constants
Threads == {"svMain", "svSync", "svNetwork"}

Undefined == [type |-> "undefined"]
Null == [type |-> "null"]

\* A success response.  threadPerfLog is abstracted to its length and to
\* what processPerfLog derives from it: parsed = -1 (null) or the number of
\* lifespans, which cannot exceed the number of snapshots.
ApiResponses ==
    { r \in [type : {"resp"}, logLen : 0..MaxLog, parsed : (-1)..MaxLog] :
        r.parsed <= r.logLen }

\* What the fetcher rejects with: a BackendApiError of the backend, or a
\* generic Error (throwGenericErrors, and the fetcher's own 'empty_response').
\* The card only tests the error for being set and hands it to
\* ChartErrorMessage, so one error of each class stands for the class.
FetchErrors ==
    { [type |-> "error", isBackendApiError |-> TRUE, hasMessage |-> TRUE,
       message |-> "not_enough_data"],
      [type |-> "error", isBackendApiError |-> FALSE, hasMessage |-> TRUE,
       message |-> "empty_response"] }

VARIABLES
    mounted,          \* FullPerfCard is mounted
    selectedThread,   \* useState('svMain')
    chartSize,        \* useState({width: 0, height: 0})
    isDarkMode,       \* useIsDarkMode()
    swrChartApiResp,  \* what useSWR returns: data, error, isLoading
    FETCH,            \* SWR's marker of the key's latest request
    newest,           \* the request started last
    stale,            \* number of pending requests that a later one superseded
    dataThread,       \* thread of the request that swrChartApiResp.data answers
    chart,            \* hook state of the FullPerfChart instance
    drawn,            \* the latest drawFullPerfChart call was made with the
                      \* targets, size, theme and processedData the chart has now
    error,            \* prop of a ChartErrorMessage rendered on its own
    errorNode         \* what that ChartErrorMessage returned

vars == <<mounted, selectedThread, chartSize, isDarkMode, swrChartApiResp,
          FETCH, newest, stale, dataThread, chart, drawn,
          error, errorNode>>

\* ------------------------------------------------------- ChartErrorMessage
\* Own keys of the errorMessageMaps object literal.
errorMessageMaps ==
    [bad_request |-> "Chart data loading failed: bad request.",
     invalid_thread_name |-> "Chart data loading failed: invalid thread name.",
     data_unavailable |-> "Chart data loading failed: data not yet available.",
     not_enough_data |-> "There is not enough data to display the chart just yet."]

\* errorMessageMaps is a plain object: a property read that misses the own
\* keys continues to Object.prototype, whose members are neither null nor
\* undefined.
ObjectPrototypeKeys ==
    {"constructor", "toString", "toLocaleString", "valueOf", "hasOwnProperty",
     "isPrototypeOf", "propertyIsEnumerable", "__proto__",
     "__defineGetter__", "__defineSetter__", "__lookupGetter__",
     "__lookupSetter__"}

\* errorMessageMaps[key]: the own text, an inherited member, or undefined.
MapLookup(key) ==
    IF key \in DOMAIN errorMessageMaps
    THEN [kind |-> "text", value |-> errorMessageMaps[key]]
    ELSE IF key \in ObjectPrototypeKeys
    THEN [kind |-> "inherited", value |-> key]
    ELSE [kind |-> "undefined", value |-> ""]

\* The element ChartErrorMessage returns: the class that distinguishes the
\* two branches and the child it renders.
ChartErrorMessage(err) ==
    IF err.isBackendApiError
    THEN LET found == MapLookup(IF err.hasMessage THEN err.message ELSE "undefined")
         IN [className |-> "text-muted-foreground",
             children |-> IF found.kind = "undefined"
                          THEN [kind |-> "text", value |-> "Unknown BackendApiError"]
                          ELSE found]
    ELSE [className |-> "text-destructive-inline",
          children |-> [kind |-> "text",
                        value |-> "Error: " \o (IF err.hasMessage THEN err.message
                                                ELSE "Unknown Error")]]

\* ----------------------------------------------------------- FullPerfChart
\* State of a FullPerfChart that is not mounted.
NoChart ==
    [mounted |-> FALSE, threadName |-> "", apiData |-> Undefined,
     width |-> 0, height |-> 0, isDarkMode |-> FALSE,
     processedData |-> Null, memoGen |-> 0,
     svgRef |-> FALSE, canvasRef |-> FALSE]

\* processPerfLog of chartingUtils: null, or the lifespans found in the log.
ProcessPerfLog(apiData) ==
    IF apiData.parsed = -1 THEN Null
    ELSE [type |-> "parsed", lifespans |-> apiData.parsed]

\* The useMemo factory.  gen stands for the identity of the object literal it
\* returns; cursorThread is the threadName its cursorSetter closes over.
ProcessedDataFactory(apiData, threadName, gen) ==
    IF apiData = Undefined THEN Null
    ELSE LET parsed == ProcessPerfLog(apiData)
         IN IF parsed = Null THEN Null
            ELSE [type |-> "processed", lifespans |-> parsed.lifespans,
                  logLen |-> apiData.logLen,
                  cursorThread |-> threadName, gen |-> gen]

\* Variant: the dependency list also names width and height.
MemoDepsWithSize(c, props) ==
    \/ props.apiData # c.apiData
    \/ props.threadName # c.threadName
    \/ props.isDarkMode # c.isDarkMode
    \/ props.width # c.width
    \/ props.height # c.height

\* Variant: the dependency list leaves isDarkMode out.
MemoDepsNoTheme(c, props) ==
    \/ props.apiData # c.apiData
    \/ props.threadName # c.threadName

\* The useMemo dependency list [apiData, threadName, isDarkMode].
MemoDepsChanged(c, props) ==
    \/ props.apiData # c.apiData
    \/ props.threadName # c.threadName
    \/ props.isDarkMode # c.isDarkMode

\* useMemo: the factory runs on mount and when a dependency changed.
\* memoGen alternates with every run of the factory; a memoised value is only
\* ever compared with the one of the previous render.
UseMemo(c, props) ==
    IF ~c.mounted \/ MemoDepsChanged(c, props)
    THEN [processedData |-> ProcessedDataFactory(props.apiData, props.threadName,
                                                 1 - c.memoGen),
          memoGen |-> 1 - c.memoGen]
    ELSE [processedData |-> c.processedData, memoGen |-> c.memoGen]

\* Variant: the early return on a missing size is absent.
RendersTargetsAlways(width, height) == TRUE

\* `if (!width || !height) return null`: whether <svg> and <canvas> are
\* returned, and so whether the refs are set when the effects run.
RendersTargets(width, height) == width # 0 /\ height # 0

\* The useEffect dependency list [processedData, width, height, svgRef, canvasRef];
\* the ref objects never change.
EffectDepsChanged(c, processedData, props) ==
    \/ processedData # c.processedData
    \/ props.width # c.width
    \/ props.height # c.height

\* Variant: the early return on an empty lifespans list is absent.
DrawGuardNoLifespans(processedData, svgRef, canvasRef, width, height) ==
    /\ processedData # Null
    /\ svgRef
    /\ canvasRef
    /\ width # 0
    /\ height # 0

\* The two early returns of the redraw effect.
DrawGuard(processedData, svgRef, canvasRef, width, height) ==
    /\ processedData # Null
    /\ svgRef
    /\ canvasRef
    /\ width # 0
    /\ height # 0
    /\ processedData.lifespans # 0

\* memo(): a re-render with the same props is skipped.
PropsChanged(c, props) ==
    \/ props.threadName # c.threadName
    \/ props.apiData # c.apiData
    \/ props.isDarkMode # c.isDarkMode
    \/ props.width # c.width
    \/ props.height # c.height

\* One render of FullPerfChart with `props`, from hook state c.
RenderFullPerfChart(c, props) ==
    IF c.mounted /\ ~PropsChanged(c, props) THEN c
    ELSE LET m == UseMemo(c, props)
             targets == RendersTargets(props.width, props.height)
         IN [mounted |-> TRUE, threadName |-> props.threadName,
             apiData |-> props.apiData, width |-> props.width,
             height |-> props.height, isDarkMode |-> props.isDarkMode,
             processedData |-> m.processedData, memoGen |-> m.memoGen,
             svgRef |-> targets, canvasRef |-> targets]

\* Whether the redraw effect of that render calls drawFullPerfChart.
EffectDraws(c, props) ==
    LET n == RenderFullPerfChart(c, props)
    IN /\ ~c.mounted \/ (PropsChanged(c, props)
                         /\ EffectDepsChanged(c, n.processedData, props))
       /\ DrawGuard(n.processedData, n.svgRef, n.canvasRef, props.width, props.height)

\* ------------------------------------------------------------ FullPerfCard
\* The props FullPerfCard passes to FullPerfChart.
ChartProps(thread, resp, size, dark) ==
    [threadName |-> thread, apiData |-> resp.data,
     width |-> size.width, height |-> size.height, isDarkMode |-> dark]

\* The contentNode switch: data first, then isLoading, then error.
ContentNode(resp) ==
    IF resp.data # Undefined THEN "chart"
    ELSE IF resp.isLoading THEN "loading"
    ELSE IF resp.error # Undefined THEN "error"
    ELSE "null"

\* Whether the content area shows anything: FullPerfChart returns null
\* without a size, the spinner and the error message are plain elements.
ContentVisible(resp, size) ==
    CASE ContentNode(resp) = "chart" -> RendersTargets(size.width, size.height)
      [] ContentNode(resp) = "loading" -> TRUE
      [] ContentNode(resp) = "error" -> TRUE
      [] OTHER -> FALSE

\* Re-render of the card with the given state: the chart instance is
\* rendered when there is data, and its effect may draw.
Rendered(thread, resp, size, dark) ==
    LET props == ChartProps(thread, resp, size, dark)
        n == RenderFullPerfChart(chart, props)
    IN IF ContentNode(resp) # "chart"
       THEN /\ chart' = NoChart
            /\ drawn' = FALSE
       ELSE /\ chart' = n
            /\ drawn' =
                 \/ EffectDraws(chart, props)
                 \/ /\ drawn
                    /\ n.width = chart.width
                    /\ n.height = chart.height
                    /\ n.isDarkMode = chart.isDarkMode
                    /\ n.processedData = chart.processedData

\* ------------------------------------------------------------------ useSWR
\* SWR keeps, per key, FETCH[key] = [promise, startAt] of the request started
\* last, and drops a response whose startAt is not the marked one.  Start
\* times only ever tell the marked request from the superseded ones, so
\* FETCH is "pending" (the newest request is marked and pending), "resolved"
\* (marked and resolved, until dedupingInterval passes) or "none".

\* newest records, besides the thread and the outcome of the request started
\* last: what started it ("mount", "select", or "swr" for SWR's own
\* revalidation), the thread of the pending request it superseded, and
\* whether a superseded request's response arrived after its own.
NoRequest == [thread |-> "none", status |-> "none", cause |-> "none",
              overtook |-> "none", lateStale |-> FALSE]

\* Variant: the fetcher is the closure of the render before the change.
FetcherThreadStale(before, now) == before

\* The thread the fetcher puts in pathParams: the hook keeps the fetcher of
\* the latest render, so it is the selectedThread of the render that ran the
\* effect (`now`), not the one before it (`before`).
FetcherThread(before, now) == now

\* The state of the key.
SwrState == [resp |-> swrChartApiResp, FETCH |-> FETCH, newest |-> newest,
             stale |-> stale]

\* revalidate(): unless deduplicated onto the marked request, call the
\* fetcher, mark the new request, and set isLoading when there is no data
\* yet.  data and error are left as they are.  A request still pending is
\* superseded.
Revalidate(S, thread, cause, dedupe) ==
    IF dedupe /\ S.FETCH # "none" THEN S
    ELSE LET open == S.newest.status = "pending"
         IN [resp |-> [S.resp EXCEPT !.isLoading = (S.resp.data = Undefined) \/ @],
             FETCH |-> "pending",
             newest |-> [thread |-> thread, status |-> "pending", cause |-> cause,
                         overtook |-> IF open THEN S.newest.thread ELSE "none",
                         lateStale |-> FALSE],
             stale |-> IF open THEN S.stale + 1 ELSE S.stale]

\* swrChartApiResp.mutate() without data: drop the FETCH marker, then
\* revalidate without deduplication.
Mutate(S, thread, cause) ==
    Revalidate([S EXCEPT !.FETCH = "none"], thread, cause, FALSE)

\* Variant: a response is used whether or not its request is the marked one.
IsLatestAlways(marked) == TRUE

\* A resolved request is used only while it is the marked one.
IsLatest(marked) == marked

\* compare(): a response deep-equal to the cached data keeps the cached
\* object, so the identity of data is its value.
SwrData(cached, fresh) == IF cached = fresh THEN cached ELSE fresh

\* Number of GET requests pending.
Inflight(S) ==
    (IF S.newest.status = "pending" THEN 1 ELSE 0) + S.stale

\* ----------------------------------------------------------------- actions
Init ==
    /\ mounted = FALSE
    /\ selectedThread = "svMain"
    /\ chartSize = [width |-> 0, height |-> 0]
    /\ isDarkMode \in BOOLEAN
    /\ swrChartApiResp = [data |-> Undefined, error |-> Undefined, isLoading |-> FALSE]
    /\ FETCH = "none"
    /\ newest = NoRequest
    /\ stale = 0
    /\ dataThread = "none"
    /\ chart = NoChart
    /\ drawn = FALSE
    /\ error = Undefined
    /\ errorNode = Null

\* The key's state after a step that called revalidate or mutate.
Fetching(S) ==
    /\ swrChartApiResp' = S.resp
    /\ FETCH' = S.FETCH
    /\ newest' = S.newest
    /\ stale' = S.stale

\* First render and its effects: SWR's revalidation on mount, then the
\* card's own effect calling mutate().
Mount ==
    /\ ~mounted
    /\ Inflight(SwrState) + 2 <= MaxInflight
    /\ mounted' = TRUE
    /\ LET S1 == Revalidate(SwrState, FetcherThread(selectedThread, selectedThread),
                            "mount", TRUE)
           S2 == Mutate(S1, FetcherThread(selectedThread, selectedThread), "mount")
       IN /\ Fetching(S2)
          /\ Rendered(selectedThread, S2.resp, chartSize, isDarkMode)
    /\ UNCHANGED <<selectedThread, chartSize, isDarkMode, dataThread, error, errorNode>>

\* onValueChange of the Select: setSelectedThread, the re-render, and the
\* effect on [selectedThread] calling mutate().
SelectThread(t) ==
    /\ mounted
    /\ t # selectedThread
    /\ Inflight(SwrState) < MaxInflight
    /\ selectedThread' = t
    /\ LET S == Mutate(SwrState, FetcherThread(selectedThread, t), "select")
       IN /\ Fetching(S)
          /\ Rendered(t, S.resp, chartSize, isDarkMode)
    /\ UNCHANGED <<mounted, chartSize, isDarkMode, dataThread, error, errorNode>>

\* onDebouncedResize of the resize container: setChartSize.
OnDebouncedResize(w, h) ==
    /\ mounted
    /\ chartSize # [width |-> w, height |-> h]
    /\ chartSize' = [width |-> w, height |-> h]
    /\ Rendered(selectedThread, swrChartApiResp, chartSize', isDarkMode)
    /\ UNCHANGED <<mounted, selectedThread, isDarkMode, swrChartApiResp, FETCH,
                   newest, stale, dataThread, error, errorNode>>

\* useIsDarkMode() returns the other value.
ThemeChange ==
    /\ mounted
    /\ isDarkMode' = ~isDarkMode
    /\ Rendered(selectedThread, swrChartApiResp, chartSize, isDarkMode')
    /\ UNCHANGED <<mounted, selectedThread, chartSize, swrChartApiResp, FETCH,
                   newest, stale, dataThread, error, errorNode>>

\* A revalidation SWR starts by itself under the default options (focus,
\* reconnect, retry after an error), deduplicated while FETCH is marked.
SwrRevalidate ==
    /\ mounted
    /\ FETCH = "none"
    /\ Inflight(SwrState) < MaxInflight
    /\ LET S == Revalidate(SwrState, FetcherThread(selectedThread, selectedThread),
                           "swr", TRUE)
       IN /\ Fetching(S)
          /\ Rendered(selectedThread, S.resp, chartSize, isDarkMode)
    /\ UNCHANGED <<mounted, selectedThread, chartSize, isDarkMode, dataThread,
                   error, errorNode>>

\* A response `data` of a request for thread t is stored.
Accept(t, data) ==
    /\ swrChartApiResp' = [data |-> SwrData(swrChartApiResp.data, data),
                           error |-> Undefined, isLoading |-> FALSE]
    /\ dataThread' = t
    /\ Rendered(selectedThread, swrChartApiResp', chartSize, isDarkMode)

\* The fetcher of the marked request returns `data`.
ResolveSuccess(data) ==
    /\ FETCH = "pending"
    /\ FETCH' = "resolved"
    /\ newest' = [newest EXCEPT !.status = "ok"]
    /\ IF IsLatest(TRUE)
       THEN Accept(newest.thread, data)
       ELSE UNCHANGED <<swrChartApiResp, dataThread, chart, drawn>>
    /\ UNCHANGED <<mounted, selectedThread, chartSize, isDarkMode, stale,
                   error, errorNode>>

\* The fetcher of a superseded request, made for thread t, returns `data`.
\* Which threads the superseded requests were made for is not kept: the
\* response is dropped whatever t is.
ResolveStaleSuccess(t, data) ==
    /\ stale > 0
    /\ stale' = stale - 1
    /\ newest' = [newest EXCEPT !.lateStale = @ \/ newest.status = "ok"]
    /\ IF IsLatest(FALSE)
       THEN Accept(t, data)
       ELSE UNCHANGED <<swrChartApiResp, dataThread, chart, drawn>>
    /\ UNCHANGED <<mounted, selectedThread, chartSize, isDarkMode, FETCH,
                   error, errorNode>>

\* An error e is stored; the data is kept.
Reject(e) ==
    /\ swrChartApiResp' = [swrChartApiResp EXCEPT !.error = e, !.isLoading = FALSE]
    /\ Rendered(selectedThread, swrChartApiResp', chartSize, isDarkMode)

\* The fetcher of the marked request throws e: the marker is dropped.
ResolveError(e) ==
    /\ FETCH = "pending"
    /\ FETCH' = "none"
    /\ newest' = [newest EXCEPT !.status = "error"]
    /\ Reject(e)
    /\ UNCHANGED <<mounted, selectedThread, chartSize, isDarkMode, stale,
                   dataThread, error, errorNode>>

\* The fetcher of a superseded request throws e: the catch branch stores the
\* error without looking at the marker.
ResolveStaleError(e) ==
    /\ stale > 0
    /\ stale' = stale - 1
    /\ Reject(e)
    /\ UNCHANGED <<mounted, selectedThread, chartSize, isDarkMode, FETCH, newest,
                   dataThread, error, errorNode>>

\* dedupingInterval after the marked request resolved, its marker is dropped.
DedupeExpire ==
    /\ FETCH = "resolved"
    /\ FETCH' = "none"
    /\ UNCHANGED <<mounted, selectedThread, chartSize, isDarkMode, swrChartApiResp,
                   newest, stale, dataThread, chart, drawn,
                   error, errorNode>>

Next ==
    \/ Mount
    \/ \E t \in Threads : SelectThread(t)
    \/ \E w \in 0..MaxDim, h \in 0..MaxDim : OnDebouncedResize(w, h)
    \/ ThemeChange
    \/ SwrRevalidate
    \/ \E d \in ApiResponses : ResolveSuccess(d)
    \/ \E t \in Threads, d \in ApiResponses : ResolveStaleSuccess(t, d)
    \/ \E e \in FetchErrors : ResolveError(e)
    \/ \E e \in FetchErrors : ResolveStaleError(e)
    \/ DedupeExpire

Spec == Init /\ [][Next]_vars

\* ------------------------------------------- ChartErrorMessage on its own
Messages ==
    DOMAIN errorMessageMaps \cup ObjectPrototypeKeys
    \cup {"unknown_code", "", "empty_response", "Bad_Request"}

\* Errors handed to ChartErrorMessage: typed or generic, with any message or
\* with none.
ErrorInputs ==
    { e \in [type : {"error"}, isBackendApiError : BOOLEAN,
             hasMessage : BOOLEAN, message : Messages] :
        e.hasMessage \/ e.message = "" }

InitErr ==
    /\ mounted = FALSE
    /\ selectedThread = "svMain"
    /\ chartSize = [width |-> 0, height |-> 0]
    /\ isDarkMode \in BOOLEAN
    /\ swrChartApiResp = [data |-> Undefined, error |-> Undefined, isLoading |-> FALSE]
    /\ FETCH = "none"
    /\ newest = NoRequest
    /\ stale = 0
    /\ dataThread = "none"
    /\ chart = NoChart
    /\ drawn = FALSE
    /\ error \in ErrorInputs
    /\ errorNode = Null

\* <ChartErrorMessage error={error} /> is rendered.
RenderChartErrorMessage ==
    /\ errorNode = Null
    /\ errorNode' = ChartErrorMessage(error)
    /\ UNCHANGED <<mounted, selectedThread, chartSize, isDarkMode, swrChartApiResp,
                   FETCH, newest, stale, dataThread, chart, drawn, error>>

NextErr == RenderChartErrorMessage

SpecErr == InitErr /\ [][NextErr]_vars

\* ------------------------------------------------------------------ claims
InflightNow == Inflight(SwrState)

ChartShown == mounted /\ ContentNode(swrChartApiResp) = "chart"

SizeIsZero == chartSize.width = 0 \/ chartSize.height = 0

C2_SelectRefetch ==
    [][ selectedThread' # selectedThread =>
          /\ InflightNow' = InflightNow + 1
          /\ newest'.status = "pending"
          /\ newest'.cause = "select"
          /\ newest'.thread = selectedThread'
          /\ FETCH' = "pending" ]_vars

\* C2 witness: svMain was selected again while the request of an earlier
\* selection of svSync was pending.
C2_Witness ==
    /\ selectedThread = "svMain"
    /\ newest.cause = "select"
    /\ newest.overtook = "svSync"
    /\ newest.thread = "svMain"
    /\ newest.status = "pending"

\* C3: drawFullPerfChart is only called with both targets mounted, a
\* non-zero width and height and at least one lifespan; a response with an
\* empty threadPerfLog is never drawn.
C3_DrawOnlyWhenGuarded ==
    drawn =>
       /\ chart.mounted
       /\ chart.svgRef
       /\ chart.canvasRef
       /\ chart.width # 0
       /\ chart.height # 0
       /\ chart.processedData # Null
       /\ chart.processedData.lifespans >= 1
       /\ chart.apiData.logLen > 0

\* C3 witness: a draw call was made.
C3_Witness ==
    /\ drawn
    /\ chart.processedData.lifespans >= 1
    /\ chart.width # 0
    /\ chart.height # 0

\* C4 as stated: with a zero width or height the content area shows nothing,
\* in every fetch state.
C4_NothingWithoutSize ==
    (mounted /\ SizeIsZero) => ~ContentVisible(swrChartApiResp, chartSize)

\* C4 amended: with a zero width or height and data present, the chart
\* surface renders nothing (no target is mounted, nothing is drawn); the
\* loading indicator and the error message are rendered whatever the size.
C4_NoChartWithoutSize ==
    /\ (mounted /\ SizeIsZero /\ swrChartApiResp.data # Undefined) =>
          /\ chart.mounted
          /\ ~chart.svgRef
          /\ ~chart.canvasRef
          /\ ~drawn
    /\ (mounted /\ swrChartApiResp.data = Undefined
               /\ (swrChartApiResp.isLoading \/ swrChartApiResp.error # Undefined)) =>
          /\ ~chart.mounted
          /\ ContentNode(swrChartApiResp) \in {"loading", "error"}

\* C4 witness: data is present and the size went back to zero.
C4_Witness ==
    /\ mounted
    /\ SizeIsZero
    /\ chartSize.width # chartSize.height
    /\ swrChartApiResp.data # Undefined
    /\ chart.mounted
    /\ ~chart.svgRef

\* C5: when the request started last resolved with an error, the content
\* area shows the error message, not the chart.
C5_ErrorReplacesChart ==
    (mounted /\ newest.status = "error") => ContentNode(swrChartApiResp) = "error"

\* C6: while the initial request or the request of a selection change is
\* pending, the content area shows the loading indicator.
C6_LoadingWhilePending ==
    (mounted /\ newest.status = "pending" /\ newest.cause \in {"mount", "select"})
    => ContentNode(swrChartApiResp) = "loading"

\* The texts documented for the four known messages.
C7_FixedText ==
    [bad_request |-> "Chart data loading failed: bad request.",
     invalid_thread_name |-> "Chart data loading failed: invalid thread name.",
     data_unavailable |-> "Chart data loading failed: data not yet available.",
     not_enough_data |-> "There is not enough data to display the chart just yet."]

\* C7: a BackendApiError with one of the four known messages gets that
\* message's fixed text, a BackendApiError with any other message gets
\* 'Unknown BackendApiError', and any other error gets 'Error: <message>'
\* and never one of the four fixed texts.
C7_ErrorMapping ==
    errorNode # Null =>
       IF error.isBackendApiError
       THEN IF error.hasMessage /\ error.message \in DOMAIN C7_FixedText
            THEN errorNode.children =
                    [kind |-> "text", value |-> C7_FixedText[error.message]]
            ELSE errorNode.children =
                    [kind |-> "text", value |-> "Unknown BackendApiError"]
       ELSE /\ errorNode.children =
                  [kind |-> "text",
                   value |-> "Error: " \o (IF error.hasMessage THEN error.message
                                           ELSE "Unknown Error")]
            /\ \A k \in DOMAIN C7_FixedText :
                  errorNode.children.value # C7_FixedText[k]

\* C8: processedData is recomputed on a render exactly when apiData,
\* threadName or isDarkMode differs from the previous render; a render where
\* only the size changed keeps the same object.
C8_MemoOnKeyChange ==
    [][ (chart.mounted /\ chart'.mounted) =>
          LET keyChanged == \/ chart'.apiData # chart.apiData
                            \/ chart'.threadName # chart.threadName
                            \/ chart'.isDarkMode # chart.isDarkMode
          IN /\ (chart'.memoGen # chart.memoGen) <=> keyChanged
             /\ ~keyChanged => chart'.processedData = chart.processedData
             /\ (keyChanged /\ chart'.processedData # Null) =>
                   chart'.processedData # chart.processedData ]_vars

\* C8 witness: the chart was rendered with a changed key after its mount and
\* is now shown with a size.
C8_Witness ==
    /\ chart.mounted
    /\ chart.memoGen = 0
    /\ chart.processedData # Null
    /\ chart.width # 0
    /\ chart.height # 0

\* C9: whenever the chart is shown, its data answers a request made for the
\* selected thread, also as the threadName its cursorSetter reports.
C9_DataOfSelectedThread ==
    ChartShown =>
       /\ dataThread = selectedThread
       /\ chart.processedData # Null => dataThread = chart.processedData.cursorThread

\* C10: once the draw guards hold, the latest drawFullPerfChart call was made
\* with the current width, height, isDarkMode and processedData.
C10_RedrawnWithCurrentValues ==
    ( /\ chart.mounted
      /\ chart.svgRef
      /\ chart.canvasRef
      /\ chart.width # 0
      /\ chart.height # 0
      /\ chart.processedData # Null
      /\ chart.processedData.lifespans >= 1 )
    => /\ drawn
       /\ chart.width = chartSize.width
       /\ chart.height = chartSize.height
       /\ chart.isDarkMode = isDarkMode
       /\ chart.threadName = selectedThread
       /\ chart.apiData = swrChartApiResp.data

\* C10 witness: the chart was redrawn after a change of thread, data or theme
\* that followed its mount.
C10_Witness ==
    /\ drawn
    /\ chart.memoGen = 0
    /\ chart.width # 0
    /\ chart.height # 0
    /\ chart.processedData # Null
    /\ chart.processedData.lifespans >= 1

====
